---- MODULE Spec2Model ----
(***************************************************************************)
(* Retrieval-and-ranking core of the Reachy2 expert agent: query           *)
(* classification, per-collection weighted search, merge/sort/truncate,    *)
(* the vector store's ingestion and query paths, its dimension check and   *)
(* its save / cleanup / load cycle, re-ranking, and response generation    *)
(* with its conversation history.                                          *)
(*                                                                         *)
(* The repository ships two copies of the package: src/src/utils (package  *)
(* "src.utils") and src/utils (package "utils").  cfg selects which copy   *)
(* is loaded: "src" or "root".                                             *)
(*                                                                         *)
(* Strings that the code inspects character by character (queries and     *)
(* keywords) are sequences of one-character strings.  Weights are kept in  *)
(* hundredths (0.95 is 95) and distances are naturals, so an effective     *)
(* score dist * weight is an exact integer.                                *)
(***************************************************************************)
EXTENDS Integers, Sequences, FiniteSets, TLC

VARIABLES
    cfg,                \* which package copy is loaded: "src" or "root"
    op,                 \* the operation that completed last
    query,              \* its query argument (sequence of characters)
    query_type,         \* label returned by detect_query_type
    collection_weights, \* outcome of the weight lookup
    outcomes,           \* what each collection query of the call does
    response,           \* what process_query arrived at
    order,              \* an order in which the collections' results are appended
    reordered,          \* the ranked list obtained by appending in that order
    collections,        \* the database: collection name -> documents held
    add_call,           \* arguments and outcome of the last add_documents
    embedded_query,     \* the text the last query_collection had embedded
    embedding_function, \* output width of the embedding function callers pass
    default_dim,        \* output width of the store's own default embedding function
    dimension_check,    \* the last get_collection_with_dimension_check
    last_use,           \* widths that met in the last add or query
    client,             \* whether the store object has its client attribute
    maint,              \* position of the save() or cleanup() in progress
    persist_directory,  \* contents of the persist directory
    save_call,          \* what the last save() held and whether it succeeded
    observed,           \* what the last concurrent call ran into
    conversation_history, \* ResponseGenerator.conversation_history
    request,            \* messages of the last request sent to the LLM
    reply,              \* what the last generate_response returned
    rerank_call,        \* arguments and result of the last ReRanker.rerank
    stored_distances,   \* distances of all documents each collection holds
    update_run,         \* progress and counters of a run of update_vectordb
    streamed,           \* what ChatbotInterface.stream_response arrived at
    prepared            \* argument and outcome of the last prepare_documents_for_db

Configs == {"src", "root"}

\* ------------------------------------------------------------------------
\* Bounds of the model
\* ------------------------------------------------------------------------
MaxWords == 2    \* a query is the concatenation of at most MaxWords words

\* ------------------------------------------------------------------------
\* Configuration (RAGConfig)
\* ------------------------------------------------------------------------
TOP_K_CHUNKS == 5

\* QUERY_KEYWORDS in dict order: a sequence of <<label, keywords>>
\* ("src": src/src/utils/config.py:73-94, "root": src/utils/config.py:96-117).
QUERY_KEYWORDS(c) ==
    IF c = "src"
    THEN <<<<"code",
             <<<<"h", "o", "w", " ", "t", "o">>,
               <<"e", "x", "a", "m", "p", "l", "e">>,
               <<"i", "m", "p", "l", "e", "m", "e", "n", "t">>,
               <<"c", "o", "d", "e">>,
               <<"f", "u", "n", "c", "t", "i", "o", "n">>,
               <<"m", "e", "t", "h", "o", "d">>,
               <<"c", "a", "l", "l">>,
               <<"u", "s", "e">>,
               <<"w", "r", "i", "t", "e">>,
               <<"p", "r", "o", "g", "r", "a", "m">>,
               <<"s", "c", "r", "i", "p", "t">>,
               <<"c", "r", "e", "a", "t", "e">>,
               <<"m", "a", "k", "e">>,
               <<"c", "o", "n", "t", "r", "o", "l">>,
               <<"m", "o", "v", "e">>,
               <<"s", "e", "t">>,
               <<"g", "e", "t">>>>>>,
           <<"default",
             <<>>>>>>
    ELSE <<<<"code",
             <<<<"h", "o", "w", " ", "t", "o">>,
               <<"e", "x", "a", "m", "p", "l", "e">>,
               <<"i", "m", "p", "l", "e", "m", "e", "n", "t">>,
               <<"c", "o", "d", "e">>,
               <<"f", "u", "n", "c", "t", "i", "o", "n">>,
               <<"m", "e", "t", "h", "o", "d">>,
               <<"c", "a", "l", "l">>,
               <<"u", "s", "e">>,
               <<"w", "r", "i", "t", "e">>,
               <<"p", "r", "o", "g", "r", "a", "m">>>>>>,
           <<"concept",
             <<<<"w", "h", "a", "t", " ", "i", "s">>,
               <<"e", "x", "p", "l", "a", "i", "n">>,
               <<"u", "n", "d", "e", "r", "s", "t", "a", "n", "d">>,
               <<"c", "o", "n", "c", "e", "p", "t">>,
               <<"a", "r", "c", "h", "i", "t", "e", "c", "t", "u", "r", "e">>,
               <<"d", "e", "s", "i", "g", "n">>,
               <<"o", "v", "e", "r", "v", "i", "e", "w">>,
               <<"d", "e", "s", "c", "r", "i", "b", "e">>,
               <<"d", "e", "f", "i", "n", "i", "t", "i", "o", "n">>,
               <<"m", "e", "a", "n">>>>>>,
           <<"error",
             <<<<"e", "r", "r", "o", "r">>,
               <<"e", "x", "c", "e", "p", "t", "i", "o", "n">>,
               <<"f", "a", "i", "l">>,
               <<"i", "s", "s", "u", "e">>,
               <<"b", "u", "g">>,
               <<"p", "r", "o", "b", "l", "e", "m">>,
               <<"w", "r", "o", "n", "g">>,
               <<"f", "i", "x">>,
               <<"d", "e", "b", "u", "g">>,
               <<"h", "a", "n", "d", "l", "e">>,
               <<"c", "a", "t", "c", "h">>>>>>,
           <<"setup",
             <<<<"s", "e", "t", "u", "p">>,
               <<"i", "n", "s", "t", "a", "l", "l">>,
               <<"c", "o", "n", "f", "i", "g", "u", "r", "e">>,
               <<"i", "n", "i", "t", "i", "a", "l", "i", "z", "a", "t", "i", "o", "n">>,
               <<"s", "t", "a", "r", "t">>,
               <<"c", "a", "l", "i", "b", "r", "a", "t", "e">>,
               <<"p", "r", "e", "p", "a", "r", "e">>,
               <<"c", "o", "n", "n", "e", "c", "t">>,
               <<"s", "e", "t", "t", "i", "n", "g">>,
               <<"c", "o", "n", "f", "i", "g", "u", "r", "a", "t", "i", "o", "n">>>>>>,
           <<"vision",
             <<<<"c", "a", "m", "e", "r", "a">>,
               <<"v", "i", "s", "i", "o", "n">>,
               <<"i", "m", "a", "g", "e">>,
               <<"v", "i", "d", "e", "o">>,
               <<"d", "e", "t", "e", "c", "t">>,
               <<"r", "e", "c", "o", "g", "n", "i", "z", "e">>,
               <<"s", "e", "e">>,
               <<"v", "i", "e", "w">>,
               <<"c", "a", "p", "t", "u", "r", "e">>,
               <<"s", "t", "r", "e", "a", "m">>,
               <<"v", "i", "s", "u", "a", "l">>>>>>>>

\* COLLECTION_WEIGHTS in dict order: a sequence of <<label, table>>, a table
\* being a sequence of <<collection, weight in hundredths>> in dict order
\* ("src": src/src/utils/config.py:53-70, "root": src/utils/config.py:44-93).
COLLECTION_WEIGHTS(c) ==
    IF c = "src"
    THEN <<<<"code", <<<<"api_docs_functions", 100>>,
               <<"api_docs_classes", 95>>,
               <<"reachy2_sdk", 90>>,
               <<"reachy2_tutorials", 85>>,
               <<"vision_examples", 95>>,
               <<"api_docs_modules", 70>>>>>>,
           <<"default", <<<<"api_docs_functions", 100>>,
               <<"api_docs_classes", 95>>,
               <<"reachy2_sdk", 90>>,
               <<"reachy2_tutorials", 85>>,
               <<"vision_examples", 95>>,
               <<"api_docs_modules", 70>>>>>>>>
    ELSE <<<<"code", <<<<"api_docs_functions", 100>>,
               <<"api_docs_classes", 90>>,
               <<"api_docs_modules", 70>>,
               <<"reachy2_sdk", 90>>,
               <<"vision_examples", 80>>,
               <<"reachy2_tutorials", 80>>>>>>,
           <<"concept", <<<<"api_docs_modules", 100>>,
               <<"api_docs_classes", 90>>,
               <<"reachy2_tutorials", 90>>,
               <<"reachy2_sdk", 80>>,
               <<"vision_examples", 80>>,
               <<"api_docs_functions", 70>>>>>>,
           <<"error", <<<<"api_docs_classes", 100>>,
               <<"api_docs_functions", 90>>,
               <<"api_docs_modules", 80>>,
               <<"reachy2_sdk", 80>>,
               <<"vision_examples", 80>>,
               <<"reachy2_tutorials", 70>>>>>>,
           <<"setup", <<<<"api_docs_modules", 100>>,
               <<"api_docs_classes", 90>>,
               <<"reachy2_sdk", 90>>,
               <<"vision_examples", 90>>,
               <<"api_docs_functions", 80>>,
               <<"reachy2_tutorials", 80>>>>>>,
           <<"vision", <<<<"vision_examples", 100>>,
               <<"api_docs_modules", 90>>,
               <<"api_docs_classes", 90>>,
               <<"api_docs_functions", 80>>,
               <<"reachy2_tutorials", 80>>,
               <<"reachy2_sdk", 70>>>>>>,
           <<"default", <<<<"api_docs_functions", 100>>,
               <<"api_docs_classes", 90>>,
               <<"api_docs_modules", 90>>,
               <<"reachy2_sdk", 80>>,
               <<"vision_examples", 80>>,
               <<"reachy2_tutorials", 80>>>>>>>>

\* ------------------------------------------------------------------------
\* Query inputs
\* ------------------------------------------------------------------------
Words ==
    { <<"u", "s", "e">>, <<"U", "S">>, <<"E">>, <<"e", "r", "r", "o", "r">>,
      <<"s", "e", "e">>, <<"m", "o", "v", "e">>,
      <<"W", "h", "a", "t", " ", "i", "s">>, <<"s", "e", "t", "u", "p">>,
      <<" ">>, <<"a", "r", "m">> }

RECURSIVE Flatten(_)
Flatten(ws) == IF ws = <<>> THEN <<>> ELSE Head(ws) \o Flatten(Tail(ws))

Queries == { Flatten(ws) : ws \in UNION { [1..n -> Words] : n \in 0..MaxWords } }

\* ------------------------------------------------------------------------
\* detect_query_type
\* ------------------------------------------------------------------------
UpperChars == <<"A", "B", "C", "D", "E", "F", "G", "H", "I", "J", "K", "L", "M",
                "N", "O", "P", "Q", "R", "S", "T", "U", "V", "W", "X", "Y", "Z">>
LowerChars == <<"a", "b", "c", "d", "e", "f", "g", "h", "i", "j", "k", "l", "m",
                "n", "o", "p", "q", "r", "s", "t", "u", "v", "w", "x", "y", "z">>

\* str.lower()
lower(s) ==
    [i \in 1..Len(s) |->
        IF \E k \in 1..26 : UpperChars[k] = s[i]
        THEN LowerChars[CHOOSE k \in 1..26 : UpperChars[k] = s[i]]
        ELSE s[i]]

\* keyword in query
contains(keyword, s) ==
    \E i \in 0..(Len(s) - Len(keyword)) : SubSeq(s, i + 1, i + Len(keyword)) = keyword

\* any(keyword in query for keyword in keywords)
any_keyword(keywords, s) == \E k \in 1..Len(keywords) : contains(keywords[k], s)

RECURSIVE scan_query_keywords(_, _, _)
scan_query_keywords(table, s, i) ==
    IF i > Len(table) THEN "default"
    ELSE IF any_keyword(table[i][2], s) THEN table[i][1]
    ELSE scan_query_keywords(table, s, i + 1)

RECURSIVE scan_last_match(_, _, _)
scan_last_match(table, s, i) ==
    IF i = 0 THEN "default"
    ELSE IF any_keyword(table[i][2], s) THEN table[i][1]
    ELSE scan_last_match(table, s, i - 1)

\* Variants of detect_query_type used to test the sensitivity of the properties.
detect_query_type_last_wins(c, q) ==
    scan_last_match(QUERY_KEYWORDS(c), lower(q), Len(QUERY_KEYWORDS(c)))

detect_query_type_unlisted_fallback(c, q) ==
    LET t == scan_query_keywords(QUERY_KEYWORDS(c), lower(q), 1)
    IN  IF t = "default" THEN "general" ELSE t

detect_query_type(c, q) == scan_query_keywords(QUERY_KEYWORDS(c), lower(q), 1)

\* ------------------------------------------------------------------------
\* Weight lookup
\* ------------------------------------------------------------------------
Labels(c) == { COLLECTION_WEIGHTS(c)[i][1] : i \in 1..Len(COLLECTION_WEIGHTS(c)) }

Table(c, label) ==
    COLLECTION_WEIGHTS(c)[CHOOSE i \in 1..Len(COLLECTION_WEIGHTS(c)) :
                            COLLECTION_WEIGHTS(c)[i][1] = label][2]

\* config.rag_config.COLLECTION_WEIGHTS[query_type]: a dict subscript, which
\* raises KeyError for a key that is not in the dict.
weights_for(c, label) ==
    IF label \in Labels(c)
    THEN [raised |-> "none", table |-> Table(c, label)]
    ELSE [raised |-> "KeyError", table |-> <<>>]

get_collection_weights(c, q) == weights_for(c, detect_query_type(c, q))

\* Labels tried against the lookup: every configured one and some that no
\* profile defines.
LabelInputs == Labels("src") \cup Labels("root") \cup {"troubleshooting", "general", ""}

NoWeights == [raised |-> "none", table |-> <<>>]

\* ------------------------------------------------------------------------
\* RAGPipeline.process_query
\* ------------------------------------------------------------------------
MaxDist == 1     \* raw distances range over 0..MaxDist
MaxHits == 1     \* a collection query returns at most MaxHits documents here

min(a, b) == IF a <= b THEN a ELSE b

\* The collections named by some weight table.
Collections ==
    { "api_docs_functions", "api_docs_classes", "api_docs_modules",
      "reachy2_sdk", "reachy2_tutorials", "vision_examples" }

\* Ascending sequences of distances of length n (a collection query returns
\* its nearest documents first).
Ascending(n) ==
    { d \in [1..n -> 0..MaxDist] : \A i \in 1..(n - 1) : d[i] <= d[i + 1] }

\* What one vector_store.query_collection call can do: raise (the collection
\* does not exist, the embedding fails), or return at most n_results
\* documents with their distances, nearest first.
QueryOutcomes(n_results) ==
    { [raised |-> TRUE, distances |-> <<>>] } \cup
    { [raised |-> FALSE, distances |-> d] :
        d \in UNION { Ascending(n) : n \in 0..min(MaxHits, n_results) } }

\* Documents handed on without the name of their collection.
documents_without_source(collection, k) ==
    [source |-> collection, hit |-> k, tag |-> <<>>]

\* documents_with_source: f"[{collection}] {doc}" for hit k of the results
\* that the query of collection returned.  source is where the hit comes
\* from, tag the prefix put in front of its text.
documents_with_source(collection, k) ==
    [source |-> collection, hit |-> k, tag |-> <<"[", collection, "] ">>]

\* documents_with_source zipped with distances, each distance multiplied by
\* the collection's weight.  The k-th document returned by a collection is
\* identified by [source, hit].
unweighted_block(collection, weight, distances) ==
    [k \in 1..Len(distances) |->
        [doc |-> documents_with_source(collection, k), score |-> distances[k] * 100]]

weighted_block(collection, weight, distances) ==
    [k \in 1..Len(distances) |->
        [doc |-> documents_with_source(collection, k), score |-> distances[k] * weight]]

\* list.sort(key=lambda x: x[1]) is a stable ascending sort.
insert_by_score(s, x) ==
    LET k == Cardinality({ i \in 1..Len(s) : s[i].score <= x.score })
    IN  SubSeq(s, 1, k) \o <<x>> \o SubSeq(s, k + 1, Len(s))

RECURSIVE sort_prefix(_, _)
sort_prefix(s, n) ==
    IF n = 0 THEN <<>> ELSE insert_by_score(sort_prefix(s, n - 1), s[n])

unsorted(s) == s

sort_by_score(s) == sort_prefix(s, Len(s))

no_truncation(s) == s

\* all_results[: config.rag_config.TOP_K_CHUNKS]
top_k(s) == SubSeq(s, 1, min(TOP_K_CHUNKS, Len(s)))

\* The loop over collection_weights.items(): an exception raised by a query
\* leaves the loop (there is no handler inside it).
RECURSIVE fan_out(_, _, _, _)
fan_out(table, outs, i, acc) ==
    IF i > Len(table) THEN acc
    ELSE LET collection == table[i][1]
             weight     == table[i][2]
             res        == outs[collection]
         IN  IF res.raised
             THEN [acc EXCEPT !.raised = TRUE,
                              !.queried = Append(acc.queried, collection)]
             ELSE fan_out(table, outs, i + 1,
                          [acc EXCEPT
                             !.queried = Append(acc.queried, collection),
                             !.all_results =
                                 acc.all_results \o
                                 weighted_block(collection, weight, res.distances)])

NoFanOut == [raised |-> FALSE, queried |-> <<>>, all_results |-> <<>>]

\* process_query up to the hand-over to the generator.  A result of kind
\* "generated" means generator.generate_response was called with
\* context = selected_docs; kind "error" is the apology string of the
\* except branch, built without calling the generator.
process_query(c, q, outs) ==
    LET qt == detect_query_type(c, q)
        cw == get_collection_weights(c, q)
        fo == IF cw.raised = "none" THEN fan_out(cw.table, outs, 1, NoFanOut)
              ELSE NoFanOut
        ranked == top_k(sort_by_score(fo.all_results))
    IN  IF cw.raised # "none" \/ fo.raised
        THEN [kind |-> "error", query_type |-> qt, queried |-> fo.queried,
              all_results |-> fo.all_results, ranked |-> <<>>, selected_docs |-> <<>>]
        ELSE [kind |-> "generated", query_type |-> qt, queried |-> fo.queried,
              all_results |-> fo.all_results, ranked |-> ranked,
              selected_docs |-> [k \in 1..Len(ranked) |-> ranked[k].doc]]

NoResponse ==
    [kind |-> "none", query_type |-> "", queried |-> <<>>, all_results |-> <<>>,
     ranked |-> <<>>, selected_docs |-> <<>>]

\* ------------------------------------------------------------------------
\* Merging in another append order
\* ------------------------------------------------------------------------
MaxSources == 2  \* collections that return documents when orders are compared
MaxBlock == 3    \* documents each of them returns

weight_of(table, collection) ==
    table[CHOOSE i \in 1..Len(table) : table[i][1] = collection][2]

\* The weight table restricted to, and in the order of, a sequence of
\* collections.
reorder(table, names) ==
    [i \in 1..Len(names) |-> <<names[i], weight_of(table, names[i])>>]

\* Sort and select top results, for the results appended in table order.
merge(table, outs) == top_k(sort_by_score(fan_out(table, outs, 1, NoFanOut).all_results))

\* Sequences of n distinct collections.
Orders(n) ==
    { o \in [1..n -> Collections] : \A i, j \in 1..n : i # j => o[i] # o[j] }

Range(f) == { f[i] : i \in DOMAIN f }

NonEmptyBlocks ==
    { [raised |-> FALSE, distances |-> d] :
        d \in UNION { Ascending(n) : n \in 1..min(MaxBlock, TOP_K_CHUNKS) } }

NoHits == [raised |-> FALSE, distances |-> <<>>]

RetrievalQueries == { <<>>, <<"u", "s", "e">> }

MergeQueries == { <<"u", "s", "e">> }

\* Collections holding more documents than one query returns.
MaxStored == 6

\* counts[d] documents at distance d, nearest first.
RECURSIVE stored_at(_, _)
stored_at(counts, d) ==
    IF d > MaxDist THEN <<>>
    ELSE [k \in 1..counts[d] |-> d] \o stored_at(counts, d + 1)

StoredDistances == { stored_at(counts, 0) : counts \in [0..MaxDist -> {0, 2, MaxStored}] }

FilledCollections == { "api_docs_functions", "api_docs_modules" }

\* A query that returned the n_results documents furthest away.
farthest(distances, n_results) ==
    SubSeq(distances, Len(distances) - min(n_results, Len(distances)) + 1,
           Len(distances))

\* collection.query(query_texts, n_results): the n_results nearest of the
\* documents the collection holds, nearest first.
nearest(distances, n_results) ==
    SubSeq(distances, 1, min(n_results, Len(distances)))

\* ------------------------------------------------------------------------
\* VectorStore (src/src/utils): db_utils.VectorStore, and the class of the
\* same name that rag_utils defines after RAGPipeline and that RAGPipeline
\* therefore instantiates.
\* ------------------------------------------------------------------------
MaxDocs == 201      \* add_documents is called with at most MaxDocs documents
MaxTexts == 2       \* ... and with at most MaxTexts when queries follow

BATCH_SIZE_unbounded == 1000
BATCH_SIZE == 100
RETRY_BATCH_SIZE == 50

StoreClasses == {"db_utils", "rag_utils"}

\* Names under which documents are stored and queried: one with an
\* instruction in both classes, one with an instruction in db_utils only,
\* one with an instruction in rag_utils only, one with none.
StoreCollections ==
    {"api_docs_functions", "vision_examples", "reachy2_docs", "scratch"}

\* COLLECTION_INSTRUCTIONS.get(collection_name, "").  Each instruction is
\* abbreviated to its opening words; the two classes use different texts.
COLLECTION_INSTRUCTIONS(cls, name) ==
    IF cls = "db_utils"
    THEN CASE name = "api_docs_functions" ->
                "Represent this OFFICIAL API function documentation for the Reachy2 SDK. ..."
           [] name = "api_docs_classes" ->
                "Represent this OFFICIAL API class documentation for the Reachy2 SDK. ..."
           [] name = "api_docs_modules" ->
                "Represent this OFFICIAL module documentation for the Reachy2 SDK. ..."
           [] name = "reachy2_tutorials" ->
                "Represent this tutorial content which contains example code and explanations. ..."
           [] name = "reachy2_sdk" ->
                "Represent this SDK example code and implementation patterns. ..."
           [] name = "vision_examples" ->
                "Represent this Vision module example code and documentation. ..."
           [] OTHER -> ""
    ELSE CASE name = "api_docs_functions" ->
                "Represent this function documentation for retrieving relevant Python API methods and functions"
           [] name = "api_docs_classes" ->
                "Represent this class documentation for retrieving relevant Python classes and their capabilities"
           [] name = "reachy2_tutorials" ->
                "Represent this tutorial content for retrieving relevant robot programming examples and explanations"
           [] name = "reachy2_sdk" ->
                "Represent this SDK documentation for retrieving relevant robot control and programming information"
           [] name = "reachy2_docs" ->
                "Represent this documentation for retrieving relevant information about Reachy 2's features, capabilities, and usage"
           [] OTHER -> ""

\* A text handed to the embedding model is [prefix, text]: the string is the
\* concatenation of the pieces of prefix followed by text.
\* add_documents: f"{instruction}:\n{text}"
document_prefix(cls, name) ==
    LET instruction == COLLECTION_INSTRUCTIONS(cls, name)
    IN  IF instruction # "" THEN <<instruction, ":\n">> ELSE <<>>

\* query_collection: db_utils joins with a sentence of its own, rag_utils
\* with ":\n".
query_prefix(cls, name) ==
    LET instruction == COLLECTION_INSTRUCTIONS(cls, name)
    IN  IF instruction = "" THEN <<>>
        ELSE IF cls = "db_utils"
             THEN <<instruction, "\n\nQuery for relevant information from this source: ">>
             ELSE <<instruction, ":\n">>

\* The add calls of one add_documents: calls is the log of collection.add
\* calls as [lo, hi, retry, ok], the call carrying texts[lo:hi],
\* metadatas[lo:hi] and ids[lo:hi]; stored the indices added; raised whether
\* add_documents re-raised.  fails is the set of positions in the log whose
\* collection.add raises; an add that raises stores nothing.
add_call_to(acc, lo, hi, retry, fails) ==
    LET ok == (Len(acc.calls) + 1) \notin fails
    IN  [calls  |-> Append(acc.calls, [lo |-> lo, hi |-> hi, retry |-> retry, ok |-> ok]),
         stored |-> IF ok THEN acc.stored \cup lo..(hi - 1) ELSE acc.stored,
         raised |-> acc.raised]

\* The retry loop with a handler that logs the failure and goes on.
RECURSIVE retry_loop_swallow(_, _, _, _)
retry_loop_swallow(j, batch_end, fails, acc) ==
    IF j >= batch_end THEN acc
    ELSE LET retry_end == min(j + RETRY_BATCH_SIZE, batch_end)
         IN  retry_loop_swallow(retry_end, batch_end, fails,
                                add_call_to(acc, j, retry_end, TRUE, fails))

RECURSIVE retry_loop(_, _, _, _)
retry_loop(j, batch_end, fails, acc) ==
    IF j >= batch_end THEN acc
    ELSE LET retry_end == min(j + RETRY_BATCH_SIZE, batch_end)
             next      == add_call_to(acc, j, retry_end, TRUE, fails)
         IN  IF next.calls[Len(next.calls)].ok
             THEN retry_loop(retry_end, batch_end, fails, next)
             ELSE [next EXCEPT !.raised = TRUE]

RECURSIVE batch_loop(_, _, _, _)
batch_loop(i, n, fails, acc) ==
    IF i >= n THEN acc
    ELSE LET batch_end == min(i + BATCH_SIZE, n)
             next      == add_call_to(acc, i, batch_end, FALSE, fails)
         IN  IF next.calls[Len(next.calls)].ok
             THEN batch_loop(batch_end, n, fails, next)
             ELSE LET retried == retry_loop(i, batch_end, fails, next)
                  IN  IF retried.raised THEN retried
                      ELSE batch_loop(batch_end, n, fails, retried)

NoCalls == [calls |-> <<>>, stored |-> {}, raised |-> FALSE]

\* add_documents(collection_name, texts, metadatas, ids) for n documents.
add_documents(n, fails) == batch_loop(0, n, fails, NoCalls)

\* The most add calls add_documents can make for n documents.
MaxAddCalls(n) == 3 * ((n + BATCH_SIZE - 1) \div BATCH_SIZE)

NoAddCall == [name |-> "", n |-> 0, fails |-> {}, calls |-> <<>>, raised |-> FALSE]
NoEmbeddedQuery ==
    [cls |-> "", name |-> "", raised |-> FALSE, prefix |-> <<>>, text |-> 0,
     top |-> -1]

\* Output widths of the embedding functions in use (all-MiniLM-L6-v2 has
\* 384, instructor-xl has 768).
EmbeddingWidths == {384, 768}

\* A collection: whether it exists, the rows it holds and the dimensionality
\* of its index, 0 as long as no embedding was added.
NoCollection == [exists |-> FALSE, documents |-> {}, dim |-> 0]
EmptyCollection == [exists |-> TRUE, documents |-> {}, dim |-> 0]

\* An embedding of the given width does not fit the collection's index.
mismatch(collection, width) == collection.dim # 0 /\ collection.dim # width

\* A store that keeps a second row for an id it already holds.
collection_add_duplicating(documents, prefix, stored) ==
    documents \cup
        { [id |-> i, prefix |-> prefix, text |-> i,
           copy |-> Cardinality({ d \in documents : d.id = i })] : i \in stored }

\* collection.add(documents, metadatas, ids) for the documents of indices
\* stored: ids are unique within a collection, a row whose id the collection
\* already holds is not added again.
collection_add(documents, prefix, stored) ==
    documents \cup
        { [id |-> i, prefix |-> prefix, text |-> i, copy |-> 0] :
              i \in { j \in stored : \A d \in documents : d.id # j } }

\* collection.query(query_texts=[prefix + text], n_results): the ids that
\* can come first in the results, -1 standing for empty results.  The
\* embedding function maps equal strings to equal vectors, at distance 0,
\* and distinct strings to distinct vectors: a document embedded from the
\* very string of the query is the nearest, and when there is none the
\* embedding model decides which document is.
top_results(documents, prefix, text) ==
    LET same == { d \in documents : d.prefix = prefix /\ d.text = text }
    IN  IF documents = {} THEN {-1}
        ELSE IF same # {} THEN { d.id : d \in same }
        ELSE { d.id : d \in documents }

\* get_collection_with_dimension_check(name, embedding_function) on a
\* collection, embedding_function being of the given width.  The handle is
\* fetched without embedding_function, so the dummy query is embedded by
\* the handle's default function, of width probe; expected_dim is not used.
get_collection_with_dimension_check(collection, width, probe) ==
    IF ~collection.exists
    THEN [outcome |-> "created", collection |-> EmptyCollection]
    ELSE IF mismatch(collection, probe)
         THEN [outcome |-> "recreated", collection |-> EmptyCollection]
         ELSE [outcome |-> "returned", collection |-> collection]

NoDimensionCheck == [name |-> "", width |-> 0, before |-> NoCollection,
                     outcome |-> "none"]
NoUse == [name |-> "", width |-> 0, dim |-> 0, rows |-> 0]

\* ------------------------------------------------------------------------
\* Persistence (VectorStore.__init__, save, cleanup)
\* ------------------------------------------------------------------------
NoCollections == [name \in StoreCollections |-> NoCollection]
NoDirectory == [exists |-> FALSE, collections |-> NoCollections]
NoSave == [ok |-> FALSE, held |-> NoCollections, previous |-> NoDirectory]
NoObservation == [call |-> "", outcome |-> ""]

\* ------------------------------------------------------------------------
\* Response generation and re-ranking
\* ------------------------------------------------------------------------
MaxCalls == 3    \* generate_response is called at most MaxCalls times

\* ResponseGenerator.MAX_HISTORY_MESSAGES of the package copy c.
MAX_HISTORY_MESSAGES(c) == IF c = "src" THEN 3 ELSE 5

ChatQueries == {"How do I move the arm?", "And the gripper?"}

\* What the request to the LLM endpoint comes to: a completion, or the
\* exception raised by requests.post / raise_for_status, or a body without
\* the "choices" key.  error is str(e), empty for a completion.
LLMOutcomes ==
    { [kind |-> "completion", content |-> "Use goto().", error |-> ""],
      [kind |-> "RequestException", content |-> "",
       error |-> "500 Server Error"],
      [kind |-> "KeyError", content |-> "", error |-> "'choices'"] }

\* Texts are sequences of parts.
APOLOGY == "I apologize, but I encountered an error while generating the response: "
error_msg(e) == <<APOLOGY, e>>

\* _format_message_for_history(role, content), without the timestamp
format_message_for_history(role, content) == [role |-> role, content |-> content]

\* The first MAX_HISTORY_MESSAGES entries instead of the last ones.
get_oldest_history(c, history) ==
    SubSeq(history, 1, min(MAX_HISTORY_MESSAGES(c), Len(history)))

\* _get_relevant_history(): conversation_history[-MAX_HISTORY_MESSAGES:]
get_relevant_history(c, history) ==
    IF history # <<>>
    THEN SubSeq(history,
                IF Len(history) > MAX_HISTORY_MESSAGES(c)
                THEN Len(history) - MAX_HISTORY_MESSAGES(c) + 1 ELSE 1,
                Len(history))
    ELSE <<>>

\* A history that records the reply without the query it answers.
update_history_reply_only(history, q, text) ==
    history \o << format_message_for_history("assistant", text) >>

\* _update_history(query, response)
update_history(history, q, text) ==
    history \o << format_message_for_history("user", <<q>>),
                  format_message_for_history("assistant", text) >>

\* The messages of the request: system prompt, relevant history, and the
\* current query with its context.
messages_for(c, history, q) ==
    << [role |-> "system", content |-> <<"SYSTEM_PROMPT">>] >>
       \o get_relevant_history(c, history)
       \o << [role |-> "user",
              content |-> <<"Query: ", q, "\n\nRelevant Documentation:\n">>] >>

\* A handler that catches the exceptions of requests only.
generate_response_requests_only(c, history, q, llm) ==
    [raised  |-> llm.kind = "KeyError",
     text    |-> IF llm.kind = "completion" THEN <<llm.content>>
                 ELSE IF llm.kind = "KeyError" THEN <<>> ELSE error_msg(llm.error),
     request |-> messages_for(c, history, q),
     history |-> IF llm.kind = "KeyError" THEN history
                 ELSE update_history(history, q,
                          IF llm.kind = "completion" THEN <<llm.content>>
                          ELSE error_msg(llm.error))]

\* generate_response(query, context, query_type): the whole body is inside
\* try / except Exception; both branches record the turn in the history.
generate_response(c, history, q, llm) ==
    LET text == IF llm.kind = "completion" THEN <<llm.content>>
                ELSE error_msg(llm.error)
    IN  [raised  |-> FALSE,
         text    |-> text,
         request |-> messages_for(c, history, q),
         history |-> update_history(history, q, text)]

NoReply == [raised |-> FALSE, failure |-> "", text |-> <<>>]

PROCESSING_APOLOGY == "I apologize, but I encountered an error while processing your query: "

\* A process_query whose handler records the failed turn as
\* generate_response does.
process_query_recording(c, history, q, outs, llm) ==
    LET retrieved == process_query(c, q, outs)
        failure == IF get_collection_weights(c, q).raised # "none"
                   THEN "KeyError" ELSE "collection query raised"
        generated == generate_response(c, history, q, llm)
    IN  IF retrieved.kind = "error"
        THEN [response |-> retrieved,
              reply    |-> [raised |-> FALSE, failure |-> failure,
                            text |-> <<PROCESSING_APOLOGY, failure>>],
              request  |-> <<>>,
              history  |-> update_history(history, q,
                                          <<PROCESSING_APOLOGY, failure>>)]
        ELSE [response |-> retrieved,
              reply    |-> [raised |-> generated.raised, failure |-> llm.error,
                            text |-> generated.text],
              request  |-> generated.request,
              history  |-> generated.history]

\* RAGPipeline.process_query(query) as a whole: retrieval, then
\* generator.generate_response on the selected documents; any exception
\* of the retrieval ends in the handler, which returns the apology string
\* and calls nothing.
process_query_whole(c, history, q, outs, llm) ==
    LET retrieved == process_query(c, q, outs)
        failure == IF get_collection_weights(c, q).raised # "none"
                   THEN "KeyError" ELSE "collection query raised"
        generated == generate_response(c, history, q, llm)
    IN  IF retrieved.kind = "error"
        THEN [response |-> retrieved,
              reply    |-> [raised |-> FALSE, failure |-> failure,
                            text |-> <<PROCESSING_APOLOGY, failure>>],
              request  |-> <<>>,
              history  |-> history]
        ELSE [response |-> retrieved,
              reply    |-> [raised |-> generated.raised, failure |-> llm.error,
                            text |-> generated.text],
              request  |-> generated.request,
              history  |-> generated.history]
MaxRerankDocs == 4   \* rerank is given at most MaxRerankDocs documents

RERANK_TOP_K == 3

\* Scores in tenths: cross-encoder scores (logits, possibly negative) and
\* original retrieval scores.
CrossScores == {-5, 2, 8}
OriginalScores == {1, 9}

RerankInputs ==
    UNION { [1..n -> [cross : CrossScores, orig : OriginalScores]] :
                n \in 0..MaxRerankDocs }

\* The weights the other way round.
combined_score_swapped(cross_score, orig_score) ==
    3 * cross_score + 7 * orig_score

\* cross_score * 0.7 + orig_score * 0.3, in hundredths
combined_score(cross_score, orig_score) ==
    7 * cross_score + 3 * orig_score

\* sorted(doc_scores, key=lambda x: x[1], reverse=True): descending, and
\* stable, entries of equal score keeping their order.
insert_by_final(sorted, e) ==
    LET ahead == Cardinality({ k \in 1..Len(sorted) : sorted[k].final >= e.final })
    IN  SubSeq(sorted, 1, ahead) \o <<e>> \o SubSeq(sorted, ahead + 1, Len(sorted))

RECURSIVE sorted_reverse_prefix(_, _)
sorted_reverse_prefix(s, n) ==
    IF n = 0 THEN <<>>
    ELSE insert_by_final(sorted_reverse_prefix(s, n - 1), s[n])

sorted_reverse(s) == sorted_reverse_prefix(s, Len(s))

\* ReRanker.rerank(query, documents, scores); documents[i] carries the
\* cross-encoder score and the original score of document i.
rerank(documents) ==
    LET doc_scores == [i \in 1..Len(documents) |->
                          [doc |-> i,
                           final |-> combined_score(documents[i].cross,
                                                    documents[i].orig)]]
        reranked == sorted_reverse(doc_scores)
    IN  SubSeq(reranked, 1, min(RERANK_TOP_K, Len(reranked)))

NoRerank == [documents |-> <<>>, result |-> <<>>]

\* ------------------------------------------------------------------------
\* State machine
\* ------------------------------------------------------------------------
pipelineVars == <<query, query_type, collection_weights, outcomes, response,
                  order, reordered, stored_distances>>
storeVars == <<collections, add_call, embedded_query>>
dimVars == <<embedding_function, default_dim, dimension_check, last_use>>
maintVars == <<client, maint, persist_directory, save_call, observed>>
chatVars == <<conversation_history, request, reply>>

vars == <<cfg, op, pipelineVars, storeVars, dimVars, maintVars, chatVars,
          rerank_call, update_run, streamed, prepared>>

NoOutcomes == [c \in Collections |-> NoHits]

\* ------------------------------------------------------------------------
\* prepare_documents_for_db (utils/embedding_utils.py, utils/doc_utils.py)
\* ------------------------------------------------------------------------
MaxPrepDocs == 3    \* a call prepares at most MaxPrepDocs documents

\* str(i), as a sequence of characters.
RECURSIVE digits(_)
digits(i) ==
    LET digit == <<"0", "1", "2", "3", "4", "5", "6", "7", "8", "9">>[(i % 10) + 1]
    IN  IF i < 10 THEN <<digit>> ELSE Append(digits(i \div 10), digit)

\* The cleaning of one metadata value: None becomes the empty string, a
\* string stays.  Strings are sequences of characters.
clean_metadata_value(value) == IF value = <<"None">> THEN <<>> ELSE value

\* An id built without the index.
doc_id_without_index(doc, i) ==
    (IF doc.collection = <<"absent">> THEN <<"d", "o", "c">>
     ELSE clean_metadata_value(doc.collection))
    \o <<"_">> \o
    (IF doc.type = <<"absent">> THEN <<"u", "n", "k", "n", "o", "w", "n">>
     ELSE clean_metadata_value(doc.type))

\* doc_id = f"{cleaned_metadata.get('collection', 'doc')}_
\*           {cleaned_metadata.get('type', 'unknown')}_{i}"
doc_id(doc, i) ==
    (IF doc.collection = <<"absent">> THEN <<"d", "o", "c">>
     ELSE clean_metadata_value(doc.collection))
    \o <<"_">> \o
    (IF doc.type = <<"absent">> THEN <<"u", "n", "k", "n", "o", "w", "n">>
     ELSE clean_metadata_value(doc.type))
    \o <<"_">> \o digits(i)

NoPrepared ==
    [module |-> "", documents |-> <<>>, raised |-> FALSE,
     texts |-> <<>>, metadatas |-> <<>>, ids |-> <<>>]

\* for i, doc in enumerate(documents), from the document of index i - 1 on.
\* The loop body of embedding_utils is inside try/except and goes on to the
\* next document after an exception; in doc_utils the exception leaves the
\* function.
RECURSIVE prepare_loop(_, _, _, _)
prepare_loop(module, documents, i, acc) ==
    IF i > Len(documents) THEN acc
    ELSE LET doc == documents[i]
         IN  IF ~doc.readable
             THEN IF module = "embedding_utils"
                  THEN prepare_loop(module, documents, i + 1, acc)
                  ELSE [acc EXCEPT !.raised = TRUE, !.texts = <<>>,
                                   !.metadatas = <<>>, !.ids = <<>>]
             ELSE prepare_loop(module, documents, i + 1,
                     [acc EXCEPT
                        !.texts = Append(@, doc.content),
                        !.metadatas =
                            Append(@, [collection |-> clean_metadata_value(doc.collection),
                                       type |-> clean_metadata_value(doc.type)]),
                        !.ids = Append(@, doc_id(doc, i - 1))])

\* prepare_documents_for_db(documents) of the given module; the one of
\* embedding_utils raises ValueError when no text is left.
prepare_documents_for_db(module, documents) ==
    LET r == prepare_loop(module, documents, 1,
                          [NoPrepared EXCEPT !.module = module,
                                             !.documents = documents])
    IN  IF module = "embedding_utils" /\ r.texts = <<>>
        THEN [r EXCEPT !.raised = TRUE]
        ELSE r

NoStream == [kind |-> "none", query_type |-> "", ranked |-> <<>>, selected_docs |-> <<>>]

\* No run of update_vectordb.  i is the number of files handled, add_calls
\* the number of db.add_documents calls, cleaned and saved whether
\* db.cleanup() and db.save() were called, status the exit status (-1 while
\* running), persisted what the "vectorstore" directory holds.
NoRun ==
    [pc |-> "idle", i |-> 0, processed |-> 0, failed |-> 0, add_calls |-> 0,
     cleaned |-> FALSE, saved |-> FALSE, status |-> -1, persisted |-> "absent"]

NoStored == [c \in Collections |-> <<>>]

\* Nothing has been called yet.  op records the last completed call; the
\* variables describing a call hold their idle value unless that call was
\* the last one.
InitRun(configs, widths, runs) ==
    /\ update_run \in runs
    /\ streamed = NoStream
    /\ prepared = NoPrepared
    /\ cfg \in configs
    /\ op = "init"
    /\ query = <<>>
    /\ query_type = ""
    /\ collection_weights = NoWeights
    /\ outcomes = NoOutcomes
    /\ stored_distances = NoStored
    /\ response = NoResponse
    /\ order = <<>>
    /\ reordered = <<>>
    /\ collections = NoCollections
    /\ add_call = NoAddCall
    /\ embedded_query = NoEmbeddedQuery
    /\ embedding_function \in widths
    /\ default_dim \in widths
    /\ dimension_check = NoDimensionCheck
    /\ last_use = NoUse
    /\ client = TRUE
    /\ maint = "idle"
    /\ persist_directory = NoDirectory
    /\ save_call = NoSave
    /\ observed = NoObservation
    /\ conversation_history = <<>>
    /\ request = <<>>
    /\ reply = NoReply
    /\ rerank_call = NoRerank

InitVars(configs, widths) == InitRun(configs, widths, {NoRun})

\* update_vectordb starts next to a "vectorstore" directory that an earlier
\* run has saved, or next to none.
InitUpdate ==
    InitRun({"root"}, {768},
            { [NoRun EXCEPT !.pc = "init", !.persisted = p] :
                  p \in {"absent", "previous"} })

\* The pipeline embeds with instructor-xl.
InitWith(configs) == InitVars(configs, {768})

Init == InitWith(Configs)

InitStore == InitWith({"src"})

\* A store used with embedding functions of either width.
InitDim == InitVars({"src"}, EmbeddingWidths)

\* detect_query_type(query): a first call, or the call repeated with the
\* same query.
DetectQueryType ==
    \E q \in Queries :
        /\ op = "init" \/ q = query
        /\ op' = "detect_query_type"
        /\ query' = q
        /\ query_type' = detect_query_type(cfg, q)
        /\ collection_weights' = NoWeights
        /\ UNCHANGED <<cfg, update_run, streamed, prepared, outcomes, response, order, reordered, stored_distances, collections,
                       add_call, embedded_query>>
        /\ UNCHANGED <<dimVars, maintVars, chatVars, rerank_call>>

\* RAGPipeline.get_collection_weights(query)
GetCollectionWeights ==
    \E q \in Queries :
        /\ op = "init" \/ q = query
        /\ op' = "get_collection_weights"
        /\ query' = q
        /\ query_type' = detect_query_type(cfg, q)
        /\ collection_weights' = get_collection_weights(cfg, q)
        /\ UNCHANGED <<cfg, update_run, streamed, prepared, outcomes, response, order, reordered, stored_distances, collections,
                       add_call, embedded_query>>
        /\ UNCHANGED <<dimVars, maintVars, chatVars, rerank_call>>

\* The lookup COLLECTION_WEIGHTS[label] on its own, for any label.
WeightsFor ==
    \E label \in LabelInputs :
        /\ op = "init"
        /\ op' = "weights_for"
        /\ query' = <<>>
        /\ query_type' = label
        /\ collection_weights' = weights_for(cfg, label)
        /\ UNCHANGED <<cfg, update_run, streamed, prepared, outcomes, response, order, reordered, stored_distances, collections,
                       add_call, embedded_query>>
        /\ UNCHANGED <<dimVars, maintVars, chatVars, rerank_call>>

\* RAGPipeline.process_query(query), the collection queries behaving as outs.
ProcessQuery ==
    /\ op = "init"
    /\ \E q \in RetrievalQueries, outs \in [Collections -> QueryOutcomes(TOP_K_CHUNKS)] :
        /\ op' = "process_query"
        /\ query' = q
        /\ query_type' = detect_query_type(cfg, q)
        /\ collection_weights' = get_collection_weights(cfg, q)
        /\ outcomes' = outs
        /\ \E llm \in LLMOutcomes :
              LET r == process_query_whole(cfg, conversation_history, q, outs, llm)
              IN  /\ response' = r.response
                  /\ reply' = r.reply
                  /\ request' = r.request
                  /\ conversation_history' = r.history
        /\ UNCHANGED <<cfg, update_run, streamed, prepared, order, reordered, stored_distances, collections, add_call, embedded_query>>
        /\ UNCHANGED <<dimVars, maintVars, rerank_call>>

\* RAGPipeline.process_query(query) on a store whose collections hold the
\* documents of contents: each query_collection call returns the
\* TOP_K_CHUNKS nearest documents of its collection.
ProcessQueryOnStore ==
    /\ op = "init"
    /\ \E q \in RetrievalQueries, contents \in [FilledCollections -> StoredDistances] :
        LET held == [c \in Collections |->
                        IF c \in FilledCollections THEN contents[c] ELSE <<>>]
            outs == [c \in Collections |->
                        [raised |-> FALSE,
                         distances |-> nearest(held[c], TOP_K_CHUNKS)]]
        IN  /\ op' = "process_query"
            /\ query' = q
            /\ query_type' = detect_query_type(cfg, q)
            /\ collection_weights' = get_collection_weights(cfg, q)
            /\ stored_distances' = held
            /\ outcomes' = outs
            /\ \E llm \in LLMOutcomes :
                  LET r == process_query_whole(cfg, conversation_history, q, outs, llm)
                  IN  /\ response' = r.response
                      /\ reply' = r.reply
                      /\ request' = r.request
                      /\ conversation_history' = r.history
            /\ UNCHANGED <<cfg, update_run, streamed, prepared, order, reordered, collections, add_call, embedded_query>>
            /\ UNCHANGED <<dimVars, maintVars, rerank_call>>

\* process_query for collection queries that all succeed, next to the same
\* merge with the per-collection results appended in the order o.  Only the
\* collections of o return documents; the position of a collection that
\* returns none does not matter.
ProcessQueryReordered ==
    /\ op = "init"
    /\ \E q \in MergeQueries, n \in 0..MaxSources :
         \E o \in Orders(n), blocks \in [1..n -> NonEmptyBlocks] :
            LET outs == [c \in Collections |->
                            IF c \in Range(o)
                            THEN blocks[CHOOSE i \in 1..n : o[i] = c]
                            ELSE NoHits]
                cw == get_collection_weights(cfg, q)
            IN  /\ op' = "process_query_reordered"
                /\ query' = q
                /\ query_type' = detect_query_type(cfg, q)
                /\ collection_weights' = cw
                /\ outcomes' = outs
                /\ response' = process_query(cfg, q, outs)
                /\ order' = o
                /\ reordered' = merge(reorder(cw.table, o), outs)
                /\ UNCHANGED <<cfg, update_run, streamed, prepared, stored_distances, collections, add_call, embedded_query>>
                /\ UNCHANGED <<dimVars, maintVars, chatVars, rerank_call>>

\* db_utils.VectorStore.add_documents(name, texts, metadatas, ids) with
\* len(texts) = n; document i has id i and text i.
AddDocuments(name, n, fails) ==
    LET r == add_documents(n, fails)
        prefix == document_prefix("db_utils", name)
        held == collections[name]
    IN  /\ client
        /\ maint = "idle"
        /\ mismatch(held, embedding_function) => fails = 1..MaxAddCalls(n)
        /\ op' = "add_documents"
        /\ add_call' = [name |-> name, n |-> n, fails |-> fails,
                        calls |-> r.calls, raised |-> r.raised]
        /\ collections' =
             [collections EXCEPT ![name] =
                 [exists |-> TRUE,
                  documents |-> collection_add(@.documents, prefix, r.stored),
                  dim |-> IF @.dim = 0 /\ r.stored # {}
                          THEN embedding_function ELSE @.dim]]
        /\ embedded_query' = NoEmbeddedQuery
        /\ dimension_check' = NoDimensionCheck
        /\ last_use' = IF n = 0 THEN NoUse
                       ELSE [name |-> name, width |-> embedding_function,
                             dim |-> held.dim,
                             rows |-> Cardinality(held.documents)]
        /\ UNCHANGED <<cfg, update_run, streamed, prepared, pipelineVars, embedding_function, default_dim>>
        /\ UNCHANGED <<maintVars, chatVars, rerank_call>>

\* One ingestion of up to MaxDocs documents.
AddOnce ==
    /\ op = "init"
    /\ \E name \in StoreCollections, n \in 0..MaxDocs :
         \E fails \in SUBSET (1..MaxAddCalls(n)) : AddDocuments(name, n, fails)

\* Ingestion of a few documents into a collection that holds none (ids are
\* unique within a collection).
AddFew ==
    \E name \in StoreCollections, n \in 0..MaxTexts :
        /\ collections[name].documents = {}
        /\ \E fails \in SUBSET (1..MaxAddCalls(n)) : AddDocuments(name, n, fails)

\* VectorStore.query_collection(name, [text], embedding_function) of class
\* cls: get_collection raises when the collection does not exist, and
\* collection.query when the embedded query does not fit the index.
QueryCollection ==
    \E cls \in StoreClasses, name \in StoreCollections, t \in 0..MaxTexts :
        LET held == collections[name]
        IN  /\ client
            /\ maint = "idle"
            /\ op' = "query_collection"
            /\ \E top \in top_results(held.documents, query_prefix(cls, name), t) :
                 embedded_query' =
                   IF held.exists
                   THEN [cls |-> cls, name |-> name,
                         raised |-> mismatch(held, embedding_function),
                         prefix |-> query_prefix(cls, name), text |-> t,
                         top |-> IF mismatch(held, embedding_function)
                                 THEN -1 ELSE top]
                   ELSE [cls |-> cls, name |-> name, raised |-> TRUE,
                         prefix |-> <<>>, text |-> t, top |-> -1]
            /\ add_call' = NoAddCall
            /\ dimension_check' = NoDimensionCheck
            /\ last_use' = IF held.exists
                           THEN [name |-> name, width |-> embedding_function,
                                 dim |-> held.dim,
                             rows |-> Cardinality(held.documents)]
                           ELSE NoUse
            /\ UNCHANGED <<cfg, update_run, streamed, prepared, pipelineVars, collections, embedding_function,
                           default_dim>>
            /\ UNCHANGED <<maintVars, chatVars, rerank_call>>

\* Collections of the store used with both embedding functions.
DimCollections == {"scratch"}

\* Ingestion, with the ids 0..n-1 again, into a collection whatever it holds.
Reingest ==
    \E name \in DimCollections, n \in 0..MaxTexts :
        \E fails \in SUBSET (1..MaxAddCalls(n)) : AddDocuments(name, n, fails)

\* VectorStore.get_collection_with_dimension_check(name, embedding_function)
GetCollectionWithDimensionCheck ==
    \E name \in DimCollections :
        LET r == get_collection_with_dimension_check(collections[name],
                                                     embedding_function, default_dim)
        IN  /\ client
            /\ maint = "idle"
            /\ op' = "get_collection_with_dimension_check"
            /\ dimension_check' = [name |-> name, width |-> embedding_function,
                                   before |-> collections[name],
                                   outcome |-> r.outcome]
            /\ collections' = [collections EXCEPT ![name] = r.collection]
            /\ add_call' = NoAddCall
            /\ embedded_query' = NoEmbeddedQuery
            /\ last_use' = NoUse
            /\ UNCHANGED <<cfg, update_run, streamed, prepared, pipelineVars, embedding_function, default_dim>>
            /\ UNCHANGED <<maintVars, chatVars, rerank_call>>

\* The caller comes back with an embedding generator of another model.
SwapEmbeddingModel ==
    /\ \E width \in EmbeddingWidths \ {embedding_function} :
          embedding_function' = width
    /\ op' = "EmbeddingGenerator"
    /\ add_call' = NoAddCall
    /\ embedded_query' = NoEmbeddedQuery
    /\ dimension_check' = NoDimensionCheck
    /\ last_use' = NoUse
    /\ UNCHANGED <<cfg, update_run, streamed, prepared, pipelineVars, collections, default_dim>>
    /\ UNCHANGED <<maintVars, chatVars, rerank_call>>

\* ------------------------------------------------------------------------
\* ChatbotInterface.stream_response (chatbot.py)
\* ------------------------------------------------------------------------
\* collection_display_names.get(collection, collection), each name without
\* the pictogram it begins with.
collection_display_names(collection) ==
    CASE collection = "api_docs_functions" -> "API Function"
      [] collection = "api_docs_classes" -> "API Class"
      [] collection = "api_docs_modules" -> "Module"
      [] collection = "reachy2_sdk" -> "SDK Example"
      [] collection = "vision_examples" -> "Vision Example"
      [] collection = "reachy2_tutorials" -> "Tutorial"
      [] collection = "reachy2_docs" -> "Documentation"
      [] OTHER -> collection

\* Documents appended with their raw distances.
display_block_unweighted(collection, weight, distances) ==
    [k \in 1..Len(distances) |->
        [doc |-> [source |-> collection, hit |-> k,
                  tag |-> <<"[", collection_display_names(collection), "] ">>],
         score |-> distances[k] * 100]]

\* The inner loop of stream_response: doc_with_source is
\* f"[{display name}] {doc}", appended with dist * weight.
display_block(collection, weight, distances) ==
    [k \in 1..Len(distances) |->
        [doc |-> [source |-> collection, hit |-> k,
                  tag |-> <<"[", collection_display_names(collection), "] ">>],
         score |-> distances[k] * weight]]

\* The loop of stream_response over collection_weights.items(); an
\* exception of a query leaves it for the handler of stream_response.
RECURSIVE stream_fan_out(_, _, _, _)
stream_fan_out(table, outs, i, acc) ==
    IF i > Len(table) THEN acc
    ELSE LET collection == table[i][1]
             res        == outs[collection]
         IN  IF res.raised
             THEN [acc EXCEPT !.raised = TRUE,
                              !.queried = Append(acc.queried, collection)]
             ELSE stream_fan_out(table, outs, i + 1,
                     [acc EXCEPT
                        !.queried = Append(acc.queried, collection),
                        !.all_results =
                            acc.all_results \o
                            display_block(collection, table[i][2], res.distances)])

\* stream_response(query, history) up to the call of
\* generator.generate_response(query, context=selected_docs, query_type):
\* kind "error" is the error message of its except branch.
stream_response(c, q, outs) ==
    LET qt == detect_query_type(c, q)
        cw == get_collection_weights(c, q)
        fo == IF cw.raised = "none" THEN stream_fan_out(cw.table, outs, 1, NoFanOut)
              ELSE NoFanOut
        ranked == top_k(sort_by_score(fo.all_results))
    IN  [kind |-> IF cw.raised # "none" \/ fo.raised THEN "error" ELSE "generated",
         query_type |-> qt,
         ranked |-> IF cw.raised # "none" \/ fo.raised THEN <<>> ELSE ranked,
         selected_docs |-> IF cw.raised # "none" \/ fo.raised THEN <<>>
                           ELSE [i \in 1..Len(ranked) |-> ranked[i].doc]]

\* stream_response(query, history) on a store, next to what process_query
\* selects for the same query on the same store.  The filled collections
\* return their nearest documents or raise, the others hold none.
StreamResponse ==
    /\ op = "init"
    /\ \E q \in RetrievalQueries,
          filled \in [FilledCollections ->
                        {[raised |-> TRUE, distances |-> <<>>]} \cup
                        { [raised |-> FALSE, distances |-> nearest(d, TOP_K_CHUNKS)] :
                              d \in StoredDistances }] :
        LET outs == [c \in Collections |->
                        IF c \in FilledCollections THEN filled[c] ELSE NoHits]
            s == stream_response(cfg, q, outs)
        IN  /\ op' = "stream_response"
            /\ query' = q
            /\ query_type' = detect_query_type(cfg, q)
            /\ collection_weights' = get_collection_weights(cfg, q)
            /\ outcomes' = outs
            /\ response' = process_query(cfg, q, outs)
            /\ streamed' = s
            /\ IF s.kind = "generated"
               THEN \E llm \in LLMOutcomes :
                       LET g == generate_response(cfg, conversation_history, q, llm)
                       IN  /\ reply' = [raised |-> g.raised, failure |-> llm.error,
                                        text |-> g.text]
                           /\ request' = g.request
                           /\ conversation_history' = g.history
               ELSE UNCHANGED chatVars
            /\ UNCHANGED <<cfg, update_run, prepared, order, reordered, stored_distances>>
            /\ UNCHANGED <<storeVars, dimVars, maintVars, rerank_call>>

NextStream == StreamResponse
SpecStream == Init /\ [][NextStream]_vars

\* ------------------------------------------------------------------------
\* prepare_documents_for_db (utils/embedding_utils.py, utils/doc_utils.py)
\* ------------------------------------------------------------------------
\* A call of prepare_documents_for_db on documents with and without the
\* metadata keys the id is built from, and on documents whose preparation
\* raises (readable is FALSE: no mapping where one is expected).
PrepareDocuments ==
    /\ op = "init"
    /\ \E module \in {"embedding_utils", "doc_utils"}, n \in 0..MaxPrepDocs :
         \E documents \in
               [1..n ->
                  { [readable |-> TRUE, content |-> "plain",
                     collection |-> <<"absent">>, type |-> <<"absent">>],
                    [readable |-> TRUE, content |-> "typed",
                     collection |-> <<"a">>, type |-> <<"t", "_", "1">>],
                    [readable |-> TRUE, content |-> "untyped",
                     collection |-> <<"a", "_", "t">>, type |-> <<"None">>],
                    [readable |-> FALSE, content |-> "",
                     collection |-> <<"absent">>, type |-> <<"absent">>] }] :
            /\ op' = "prepare_documents_for_db"
            /\ prepared' = prepare_documents_for_db(module, documents)
    /\ UNCHANGED <<cfg, update_run, streamed, pipelineVars, storeVars, dimVars,
                   maintVars, chatVars, rerank_call>>

NextPrepare == PrepareDocuments
SpecPrepare == InitWith({"root"}) /\ [][NextPrepare]_vars

\* ------------------------------------------------------------------------
\* scripts/update_vectordb.py
\* ------------------------------------------------------------------------
\* The list collections of main.
NumFiles == 7

RunFrame ==
    UNCHANGED <<cfg, streamed, prepared, pipelineVars, storeVars, dimVars, maintVars, chatVars,
                rerank_call>>

\* sys.exit(1), from the except branch of main or from its else branch
\* (SystemExit is no Exception and passes the handler).
exit_1(run) == [run EXCEPT !.pc = "exited", !.status = 1]

\* main up to the cleanup: VectorStore(persist_directory="vectorstore") and
\* EmbeddingGenerator(model_name); an exception of either ends the run.
MainInit ==
    /\ update_run.pc = "init"
    /\ op' = "update_vectordb"
    /\ \E raised \in BOOLEAN :
          update_run' = IF raised THEN exit_1(update_run)
                        ELSE [update_run EXCEPT !.pc = "cleanup"]
    /\ RunFrame

\* db.cleanup(): it handles its own failures, only the re-creation of the
\* client after the handler can raise.
MainCleanup ==
    /\ update_run.pc = "cleanup"
    /\ op' = "update_vectordb"
    /\ \E raised \in BOOLEAN :
          update_run' = IF raised
                        THEN exit_1([update_run EXCEPT !.cleaned = TRUE])
                        ELSE [update_run EXCEPT !.pc = "files", !.cleaned = TRUE]
    /\ RunFrame

\* What happens to one file inside process_json_file.
FileOutcomes ==
    { "no documents", "load raised", "prepare raised", "add raised",
      "count raised", "added" }

\* process_json_file(filepath, db, embedding_generator): every failure is
\* handled and answered with False; add_documents is called once the
\* documents are loaded and prepared.
process_json_file(outcome) ==
    [returned |-> outcome = "added",
     add_called |-> outcome \in {"add raised", "count raised", "added"}]

\* One iteration of "for filepath in collections".
ProcessFile ==
    /\ update_run.pc = "files"
    /\ update_run.i < NumFiles
    /\ op' = "update_vectordb"
    /\ \E exists \in BOOLEAN, outcome \in FileOutcomes :
          LET r == process_json_file(outcome)
          IN  update_run' =
                IF ~exists
                THEN [update_run EXCEPT !.i = @ + 1, !.failed = @ + 1]
                ELSE [update_run EXCEPT
                        !.i = @ + 1,
                        !.add_calls = IF r.add_called THEN @ + 1 ELSE @,
                        !.processed = IF r.returned THEN @ + 1 ELSE @,
                        !.failed = IF r.returned THEN @ ELSE @ + 1]
    /\ RunFrame

\* The end of main that saves whatever the counters say.
MainFinishAlwaysSaves ==
    /\ update_run.pc = "files"
    /\ update_run.i = NumFiles
    /\ op' = "update_vectordb"
    /\ update_run' = [update_run EXCEPT !.pc = "exited", !.saved = TRUE,
                                         !.status = 0, !.persisted = "saved"]
    /\ RunFrame

\* After the loop: db.save() when a file was processed, sys.exit(1)
\* otherwise.  save() handles its own failures: when rmtree raises the
\* directory stays as it was, when copytree raises it is gone; only the
\* re-creation of the client in its handler can raise, into the except
\* branch of main.
MainFinish ==
    /\ update_run.pc = "files"
    /\ update_run.i = NumFiles
    /\ op' = "update_vectordb"
    /\ IF update_run.processed > 0
       THEN \E result \in {"saved", "removed", update_run.persisted},
               raised \in BOOLEAN :
               /\ raised => result # "saved"
               /\ update_run' = [update_run EXCEPT
                                   !.pc = "exited", !.saved = TRUE,
                                   !.status = IF raised THEN 1 ELSE 0,
                                   !.persisted = result]
       ELSE update_run' = exit_1(update_run)
    /\ RunFrame

NextUpdate == MainInit \/ MainCleanup \/ ProcessFile \/ MainFinish
SpecUpdate == InitUpdate /\ [][NextUpdate]_vars /\ WF_vars(NextUpdate)

Next == ProcessQuery
Spec == Init /\ [][Next]_vars

NextClassify == DetectQueryType \/ GetCollectionWeights \/ WeightsFor
SpecClassify == Init /\ [][NextClassify]_vars

NextStore == ProcessQueryOnStore
SpecStore == Init /\ [][NextStore]_vars

NextMerge == ProcessQueryReordered
SpecMerge == Init /\ [][NextMerge]_vars

NextAdd == AddOnce
SpecAdd == InitStore /\ [][NextAdd]_vars

NextPrefix == AddFew \/ QueryCollection
SpecPrefix == InitStore /\ [][NextPrefix]_vars

\* A collection of the saved store is given at most MaxSaved documents.
MaxSaved == 1

\* Collections of the store that is saved and loaded again.
PersistCollections == {"reachy2_docs", "scratch"}

\* Ingestion of a few documents into a collection of the saved store that
\* holds none.
IngestFew ==
    \E name \in PersistCollections, n \in 0..MaxSaved :
        /\ collections[name].documents = {}
        /\ \E fails \in SUBSET (1..MaxAddCalls(n)) : AddDocuments(name, n, fails)

\* What a step of save() or cleanup() leaves alone or resets.
MaintRest ==
    /\ add_call' = NoAddCall
    /\ embedded_query' = NoEmbeddedQuery
    /\ dimension_check' = NoDimensionCheck
    /\ last_use' = NoUse
    /\ UNCHANGED <<cfg, update_run, streamed, prepared, pipelineVars, embedding_function, default_dim,
                   chatVars, rerank_call>>

MaintFrame ==
    /\ observed' = NoObservation
    /\ MaintRest

\* save(): del self.client
SaveClose ==
    /\ maint = "idle"
    /\ client
    /\ op' = "save"
    /\ client' = FALSE
    /\ maint' = "save_closed"
    /\ save_call' = [ok |-> FALSE, held |-> collections,
                     previous |-> persist_directory]
    /\ UNCHANGED <<collections, persist_directory>>
    /\ MaintFrame

\* save(): shutil.rmtree(self.persist_directory) if it exists
SaveRemove ==
    /\ maint = "save_closed"
    /\ op' = "save"
    /\ maint' = "save_removed"
    /\ persist_directory' = NoDirectory
    /\ UNCHANGED <<collections, client, save_call>>
    /\ MaintFrame

\* save(): shutil.copytree(self.temp_dir, self.persist_directory)
SaveCopy ==
    /\ maint = "save_removed"
    /\ op' = "save"
    /\ maint' = "save_copied"
    /\ persist_directory' = [exists |-> TRUE, collections |-> collections]
    /\ UNCHANGED <<collections, client, save_call>>
    /\ MaintFrame

\* save(): self._initialize_client() at the end of the try block
SaveReopen ==
    /\ maint = "save_copied"
    /\ op' = "save"
    /\ maint' = "idle"
    /\ client' = TRUE
    /\ save_call' = [save_call EXCEPT !.ok = TRUE]
    /\ UNCHANGED <<collections, persist_directory>>
    /\ MaintFrame

\* A handler of save() that leaves the store without client.
SaveFailsClosed ==
    /\ maint \in {"save_closed", "save_removed"}
    /\ op' = "save"
    /\ maint' = "idle"
    /\ observed' = [call |-> "save",
                    outcome |-> IF maint = "save_closed" THEN "rmtree raised"
                                ELSE "copytree raised"]
    /\ UNCHANGED <<collections, client, persist_directory, save_call>>
    /\ MaintRest

\* save(): rmtree or copytree raises, the handler reinitializes the client.
\* A copytree that raises is taken to have copied nothing.
SaveFails ==
    /\ maint \in {"save_closed", "save_removed"}
    /\ op' = "save"
    /\ maint' = "idle"
    /\ client' = TRUE
    /\ observed' = [call |-> "save",
                    outcome |-> IF maint = "save_closed" THEN "rmtree raised"
                                ELSE "copytree raised"]
    /\ UNCHANGED <<collections, persist_directory, save_call>>
    /\ MaintRest

\* cleanup(): self.client.delete_collection(collection) for one collection
\* of list_collections(); a delete that raises only prints a warning.
CleanupDelete ==
    /\ maint \in {"idle", "cleanup_deleting"}
    /\ client
    /\ op' = "cleanup"
    /\ maint' = "cleanup_deleting"
    /\ \E name \in PersistCollections :
          /\ collections[name].exists
          /\ \E deleted \in BOOLEAN :
                collections' = IF deleted
                               THEN [collections EXCEPT ![name] = NoCollection]
                               ELSE collections
    /\ UNCHANGED <<client, persist_directory, save_call>>
    /\ MaintFrame

\* cleanup(): del self.client, once the loop over the collections is over
CleanupClose ==
    /\ maint \in {"idle", "cleanup_deleting"}
    /\ client
    /\ op' = "cleanup"
    /\ maint' = "cleanup_closed"
    /\ client' = FALSE
    /\ UNCHANGED <<collections, persist_directory, save_call>>
    /\ MaintFrame

\* A cleanup() that reopens the client on the directory it had.
CleanupReopenSameDirectory ==
    /\ maint = "cleanup_closed"
    /\ op' = "cleanup"
    /\ maint' = "idle"
    /\ client' = TRUE
    /\ observed' = [call |-> "cleanup", outcome |-> "completed"]
    /\ UNCHANGED <<collections, persist_directory, save_call>>
    /\ MaintRest

\* cleanup(): rmtree of the temporary directory, mkdtemp and
\* _initialize_client on the new, empty directory
CleanupReopen ==
    /\ maint = "cleanup_closed"
    /\ op' = "cleanup"
    /\ maint' = "idle"
    /\ client' = TRUE
    /\ collections' = NoCollections
    /\ observed' = [call |-> "cleanup", outcome |-> "completed"]
    /\ UNCHANGED <<persist_directory, save_call>>
    /\ MaintRest

\* cleanup(): list_collections raises at the start, or rmtree or mkdtemp
\* raises after the client was closed; the handler reinitializes the client
\* on self.temp_dir: the old directory as it is when rmtree raised, a
\* directory that no longer exists, and is created empty, when mkdtemp did.
CleanupFails ==
    /\ maint \in {"idle", "cleanup_closed"}
    /\ client \/ maint = "cleanup_closed"
    /\ op' = "cleanup"
    /\ maint' = "idle"
    /\ client' = TRUE
    /\ \E removed \in BOOLEAN :
          collections' = IF removed /\ maint = "cleanup_closed"
                         THEN NoCollections ELSE collections
    /\ observed' = [call |-> "cleanup", outcome |-> "warning"]
    /\ UNCHANGED <<persist_directory, save_call>>
    /\ MaintRest

\* VectorStore(persist_directory) in a new process: a new temporary
\* directory and client, then the copy of the persist directory if it
\* exists; a copy that raises only prints a warning.
Construct ==
    /\ maint = "idle"
    /\ op' = "VectorStore"
    /\ client' = TRUE
    /\ \E copied \in BOOLEAN :
          IF ~persist_directory.exists
          THEN /\ collections' = NoCollections
               /\ observed' = [call |-> "__init__", outcome |-> "no directory"]
          ELSE IF copied
               THEN /\ collections' = persist_directory.collections
                    /\ observed' = [call |-> "__init__", outcome |-> "copied"]
               ELSE /\ collections' = NoCollections
                    /\ observed' = [call |-> "__init__", outcome |-> "warning"]
    /\ UNCHANGED <<maint, persist_directory, save_call>>
    /\ add_call' = NoAddCall
    /\ embedded_query' = NoEmbeddedQuery
    /\ dimension_check' = NoDimensionCheck
    /\ last_use' = NoUse
    /\ UNCHANGED <<cfg, update_run, streamed, prepared, pipelineVars, embedding_function, default_dim,
                   chatVars, rerank_call>>

\* query_collection called from another thread while save() or cleanup()
\* is in progress: self.client is read without any lock.
ConcurrentQuery ==
    /\ maint # "idle"
    /\ \E name \in PersistCollections :
          observed' = [call |-> "query_collection",
                       outcome |-> IF ~client THEN "AttributeError"
                                   ELSE IF ~collections[name].exists
                                        THEN "InvalidCollectionException"
                                        ELSE "results"]
    /\ UNCHANGED <<op, collections, client, maint, persist_directory, save_call>>
    /\ UNCHANGED <<add_call, embedded_query, dimension_check, last_use>>
    /\ UNCHANGED <<cfg, update_run, streamed, prepared, pipelineVars, embedding_function, default_dim,
                   chatVars, rerank_call>>

\* add_documents of one document called from another thread while save()
\* or cleanup() is in progress.
ConcurrentAdd ==
    /\ maint # "idle"
    /\ \E name \in PersistCollections :
          IF ~client
          THEN /\ observed' = [call |-> "add_documents", outcome |-> "AttributeError"]
               /\ UNCHANGED collections
          ELSE /\ observed' = [call |-> "add_documents", outcome |-> "added"]
               /\ collections' =
                    [collections EXCEPT ![name] =
                        [exists |-> TRUE,
                         documents |-> collection_add(@.documents,
                                           document_prefix("db_utils", name), {0}),
                         dim |-> IF @.dim = 0 THEN embedding_function ELSE @.dim]]
    /\ UNCHANGED <<op, client, maint, persist_directory, save_call>>
    /\ UNCHANGED <<add_call, embedded_query, dimension_check, last_use>>
    /\ UNCHANGED <<cfg, update_run, streamed, prepared, pipelineVars, embedding_function, default_dim,
                   chatVars, rerank_call>>

\* ResponseGenerator.generate_response(q, context, query_type)
GenerateResponse ==
    /\ Len(conversation_history) < 2 * MaxCalls
    /\ \E q \in ChatQueries, llm \in LLMOutcomes :
          LET r == generate_response(cfg, conversation_history, q, llm)
          IN  /\ op' = "generate_response"
              /\ reply' = [raised |-> r.raised, failure |-> llm.error,
                           text |-> r.text]
              /\ request' = r.request
              /\ conversation_history' = r.history
    /\ UNCHANGED <<cfg, update_run, streamed, prepared, pipelineVars, storeVars, dimVars, maintVars, rerank_call>>

NextChat == GenerateResponse
SpecChat == Init /\ [][NextChat]_vars

\* ReRanker.rerank(query, documents, scores), called once
Rerank ==
    /\ op = "init"
    /\ \E documents \in RerankInputs :
          /\ op' = "rerank"
          /\ rerank_call' = [documents |-> documents, result |-> rerank(documents)]
    /\ UNCHANGED <<cfg, update_run, streamed, prepared, pipelineVars, storeVars, dimVars, maintVars, chatVars>>

NextRerank == Rerank
SpecRerank == InitStore /\ [][NextRerank]_vars

NextPersist == IngestFew \/ SaveClose \/ SaveRemove \/ SaveCopy \/ SaveReopen
                  \/ SaveFails \/ Construct
SpecPersist == InitStore /\ [][NextPersist]_vars

NextCleanup == IngestFew \/ SaveClose \/ SaveRemove \/ SaveCopy \/ SaveReopen
                  \/ CleanupDelete \/ CleanupClose \/ CleanupReopen
                  \/ CleanupFails
SpecCleanup == InitStore /\ [][NextCleanup]_vars

NextMaint == IngestFew \/ SaveClose \/ SaveRemove \/ SaveCopy \/ SaveReopen
                \/ SaveFails \/ CleanupDelete \/ CleanupClose \/ CleanupReopen
                \/ CleanupFails \/ ConcurrentQuery \/ ConcurrentAdd
SpecMaint == InitStore /\ [][NextMaint]_vars

NextDim == Reingest \/ QueryCollection \/ GetCollectionWithDimensionCheck
              \/ SwapEmbeddingModel
SpecDim == InitDim /\ [][NextDim]_vars

\* ------------------------------------------------------------------------
\* Properties of process_query (Spec)
\* ------------------------------------------------------------------------
TableNames(table) == { table[i][1] : i \in 1..Len(table) }

RECURSIVE TotalReturned(_, _)
TotalReturned(outs, names) ==
    IF names = {} THEN 0
    ELSE LET c == CHOOSE x \in names : TRUE
         IN  Len(outs[c].distances) + TotalReturned(outs, names \ {c})

AllSucceeded == \A c \in TableNames(collection_weights.table) : ~outcomes[c].raised
AllRaised    == \A c \in TableNames(collection_weights.table) : outcomes[c].raised

\* C1: when every per-collection query succeeds, the context handed to the
\* generator is in non-decreasing order of effective score and its length is
\* min(TOP_K_CHUNKS, number of results returned by all collections).
C1_ContextSortedAndTruncated ==
    (op = "process_query" /\ AllSucceeded) =>
        /\ response.kind = "generated"
        /\ \A k \in 1..(Len(response.ranked) - 1) :
              response.ranked[k].score <= response.ranked[k + 1].score
        /\ Len(response.ranked) =
              min(TOP_K_CHUNKS,
                  TotalReturned(outcomes, TableNames(collection_weights.table)))
        /\ response.selected_docs =
              [k \in 1..Len(response.ranked) |-> response.ranked[k].doc]

C1_Witness ==
    /\ op = "process_query" /\ AllSucceeded
    /\ TotalReturned(outcomes, TableNames(collection_weights.table)) > TOP_K_CHUNKS
    /\ Len(response.selected_docs) = TOP_K_CHUNKS
    /\ response.ranked[1].score < response.ranked[TOP_K_CHUNKS].score
    /\ response.all_results[1].score > response.all_results[2].score

RawDistance(e) == outcomes[e.doc.source].distances[e.doc.hit]
WeightOf(e) == weight_of(collection_weights.table, e.doc.source)

C3_PartialFailureStillRanks ==
    ( /\ op = "process_query"
      /\ ~AllSucceeded /\ ~AllRaised
      /\ \E c \in TableNames(collection_weights.table) :
            ~outcomes[c].raised /\ outcomes[c].distances # <<>> )
    => (response.kind = "generated" /\ response.ranked # <<>>)

\* C4: when every per-collection query raises, retrieval yields an empty
\* ranked list that is handed to the generator; it does not become an error
\* result.
C4_TotalFailureYieldsEmptyContext ==
    (op = "process_query" /\ AllRaised) =>
        (response.kind = "generated" /\ response.selected_docs = <<>>)

\* ------------------------------------------------------------------------
\* Properties of the merge under reordering (SpecMerge)
\* ------------------------------------------------------------------------
Scores(s) == [k \in 1..Len(s) |-> s[k].score]

CrossCollectionTie ==
    \E i, j \in 1..Len(response.all_results) :
        /\ response.all_results[i].doc.source # response.all_results[j].doc.source
        /\ response.all_results[i].score = response.all_results[j].score

\* C5 (as stated): for every order in which the per-collection results are
\* appended, the sorted and truncated list is identical, also when results of
\* different collections have equal effective scores.
C5_OrderIndependent ==
    (op = "process_query_reordered") => reordered = response.ranked

\* C5 (amended): for every append order the sorted and truncated list has the
\* same sequence of effective scores, and it is the identical list whenever no
\* two results of different collections have equal effective scores.
C5_OrderIndependentWithoutTies ==
    (op = "process_query_reordered") =>
        /\ Scores(reordered) = Scores(response.ranked)
        /\ ~CrossCollectionTie => reordered = response.ranked

\* Two collections appended in the reverse of table order, without ties,
\* more results than TOP_K_CHUNKS.
C5_Witness ==
    /\ op = "process_query_reordered"
    /\ Len(order) = 2
    /\ response.queried # <<>>
    /\ \E i, j \in 1..Len(response.queried) :
          i < j /\ response.queried[i] = order[2] /\ response.queried[j] = order[1]
    /\ ~CrossCollectionTie
    /\ Len(response.all_results) > TOP_K_CHUNKS
    /\ reordered = response.ranked
    /\ \E k \in 1..(Len(reordered) - 1) :
          reordered[k].doc.source # reordered[k + 1].doc.source

\* ------------------------------------------------------------------------
\* Properties of classification and weight lookup (SpecClassify)
\* ------------------------------------------------------------------------
\* The profiles, by position in QUERY_KEYWORDS, one of whose keywords occurs
\* in the lower-cased query.
MatchingProfiles ==
    { i \in 1..Len(QUERY_KEYWORDS(cfg)) :
        \E k \in 1..Len(QUERY_KEYWORDS(cfg)[i][2]) :
            LET keyword == QUERY_KEYWORDS(cfg)[i][2][k]
                s == lower(query)
            IN  \E a \in 1..(Len(s) + 1), b \in 0..Len(s) :
                    b - a + 1 = Len(keyword) /\ SubSeq(s, a, b) = keyword }

Called(names) == op \in names

\* C6: detect_query_type returns the first label, in the order of
\* QUERY_KEYWORDS, one of whose keywords is a substring of the lower-cased
\* query, and "default" exactly when no profile has such a keyword, as for the
\* empty query.
C6_FirstMatchingProfileWins ==
    Called({"detect_query_type"}) =>
        /\ MatchingProfiles # {} =>
              query_type =
                  QUERY_KEYWORDS(cfg)[CHOOSE i \in MatchingProfiles :
                                        \A j \in MatchingProfiles : i <= j][1]
        /\ (query_type = "default") <=> (MatchingProfiles = {})
        /\ query = <<>> => query_type = "default"

\* A query with an upper-case letter that matches two profiles, and the
\* first of them is returned.
C6_Witness ==
    /\ op = "detect_query_type"
    /\ Cardinality(MatchingProfiles) >= 2
    /\ lower(query) # query
    /\ query_type = QUERY_KEYWORDS(cfg)[1][1]

\* C7: the label detect_query_type returns is a key of COLLECTION_WEIGHTS, so
\* get_collection_weights(query) finds a table for it and does not fail; the
\* calls read the configuration and change none of it.
C7_LabelIsConfiguredProfile ==
    Called({"detect_query_type", "get_collection_weights"}) =>
        /\ query_type \in Labels(cfg)
        /\ op = "get_collection_weights" =>
              /\ collection_weights.raised = "none"
              /\ collection_weights.table = Table(cfg, query_type)
              /\ collection_weights.table # <<>>

\* The fallback label, and a label found by a keyword, both looked up.
C7_Witness ==
    /\ op = "get_collection_weights"
    /\ collection_weights.raised = "none"
    /\ query_type = "default"
    /\ query # <<>>

C9_QueryPrefixMirrorsIngestion ==
    (op = "query_collection" /\ ~embedded_query.raised) =>
        /\ \A d \in collections[embedded_query.name].documents :
              d.prefix = embedded_query.prefix
        /\ COLLECTION_INSTRUCTIONS(embedded_query.cls, embedded_query.name) = "" =>
              embedded_query.prefix = <<>>

Calls == add_call.calls

\* The batch (non-retry call) that a call of the log belongs to.
BatchOf(k) == CHOOSE b \in 1..k : ~Calls[b].retry /\ \A j \in (b + 1)..k : Calls[j].retry

Covered(i) == \E k \in 1..Len(Calls) :
                  /\ Calls[k].ok
                  /\ Calls[k].lo <= i
                  /\ i < Calls[k].hi

C11_NoSilentLoss ==
    op = "add_documents" =>
        /\ ~add_call.raised =>
              \A i \in 0..(add_call.n - 1) :
                  /\ Covered(i)
                  /\ \E d \in collections[add_call.name].documents : d.id = i
        /\ (\E i \in 0..(add_call.n - 1) : ~Covered(i)) => add_call.raised

\* A batch of a second hundred failed, both its retries succeeded, and the
\* call returned normally.
C11_Witness ==
    /\ op = "add_documents"
    /\ ~add_call.raised
    /\ add_call.n > BATCH_SIZE
    /\ \E k \in 1..Len(Calls) : ~Calls[k].ok /\ Calls[k].lo >= BATCH_SIZE
    /\ \A i \in 0..(add_call.n - 1) : Covered(i)

\* ------------------------------------------------------------------------
\* Properties of the dimension check (SpecDim)
\* ------------------------------------------------------------------------

\* C12: get_collection_with_dimension_check(name, f).  When the collection
\* exists and its index dimensionality differs from the output width of f,
\* it is deleted and recreated empty; when the two match, the existing
\* collection is returned with its documents unchanged; when the collection
\* does not exist, a new empty one is created.
C12_DimensionCheckHeals ==
    op = "get_collection_with_dimension_check" =>
        LET before == dimension_check.before
            now    == collections[dimension_check.name]
        IN  /\ before.exists /\ mismatch(before, dimension_check.width) =>
                /\ dimension_check.outcome = "recreated"
                /\ now = EmptyCollection
            /\ before.exists /\ ~mismatch(before, dimension_check.width) =>
                /\ dimension_check.outcome = "returned"
                /\ now = before
            /\ ~before.exists =>
                /\ dimension_check.outcome = "created"
                /\ now = EmptyCollection

\* C13: over every sequence of add_documents, query_collection and
\* get_collection_with_dimension_check calls, with embedding functions of
\* different widths, no add and no query meets an index whose
\* dimensionality differs from the width of the embedding function used.
C13_IndexWidthAlwaysMatches == ~mismatch(last_use, last_use.width)

\* ------------------------------------------------------------------------
\* C20: ingestion is idempotent.  Adding the same n documents, with the
\* same ids, a second time to a collection that was empty before the
\* first add leaves the collection as the first add left it, each id held
\* once.
FirstAddDone ==
    /\ op = "add_documents"
    /\ ~add_call.raised
    /\ add_call.n > 0
    /\ { d.id : d \in collections[add_call.name].documents } = 0..(add_call.n - 1)
    /\ Cardinality(collections[add_call.name].documents) = add_call.n

SecondAdd ==
    /\ FirstAddDone
    /\ op' = "add_documents"
    /\ add_call'.name = add_call.name
    /\ add_call'.n = add_call.n

EachIdOnce(documents) ==
    \A d, e \in documents : d.id = e.id => d = e

C14_MaintenanceIsExclusive ==
    observed.call \in {"query_collection", "add_documents"} =>
        observed.outcome = "StoreBusyError"

\* C15: persistence round trip.  A VectorStore constructed on the persist
\* directory after a save() whose steps all succeeded holds the
\* collections, with the ids, texts and metadata, that the saving store
\* held at the time of save().
C15_RoundTrip ==
    op = "VectorStore" /\ save_call.ok => collections = save_call.held

\* ------------------------------------------------------------------------
\* Properties of generate_response (SpecChat)
\* ------------------------------------------------------------------------

\* C16: generate_response never raises.  When the LLM request fails or its
\* response is malformed, the value returned is the message that begins
\* with "I apologize, but I encountered an error while generating the
\* response" and carries the text of the error.
C16_GenerationFailureIsReturned ==
    op = "generate_response" =>
        /\ ~reply.raised
        /\ reply.failure # "" =>
              /\ Len(reply.text) = 2
              /\ reply.text[1] = APOLOGY
              /\ reply.text[2] = reply.failure

\* The response of the LLM had no "choices" key.
C16_Witness ==
    /\ op = "generate_response"
    /\ reply.failure = "'choices'"
    /\ ~reply.raised
    /\ reply.text[1] = APOLOGY

\* C17: the history placed in a request has at most MAX_HISTORY_MESSAGES
\* entries, and they are the most recent entries of the history recorded
\* before the call, in chronological order.
HistoryBefore == SubSeq(conversation_history, 1, Len(conversation_history) - 2)
HistorySent == SubSeq(request, 2, Len(request) - 1)

C17_HistoryWindow ==
    op = "generate_response" /\ ~reply.raised =>
        /\ Len(HistorySent) <= MAX_HISTORY_MESSAGES(cfg)
        /\ Len(HistorySent) = min(MAX_HISTORY_MESSAGES(cfg), Len(HistoryBefore))
        /\ \A k \in 1..Len(HistorySent) :
              HistorySent[k]
                 = HistoryBefore[Len(HistoryBefore) - Len(HistorySent) + k]

\* More turns were recorded than a request takes.
C17_Witness ==
    /\ op = "generate_response"
    /\ Len(HistoryBefore) > MAX_HISTORY_MESSAGES(cfg)
    /\ Len(HistorySent) = MAX_HISTORY_MESSAGES(cfg)
    /\ HistorySent[1] # HistoryBefore[1]

\* ------------------------------------------------------------------------
\* C18: every entry of the ranked context comes from a collection that is
\* a key of the weight table selected for the query's label, and carries
\* the name of the collection whose query returned it; no collection
\* outside that table is queried.
C18_ContextFromWeightTable ==
    op = "process_query" =>
        /\ \A k \in 1..Len(response.queried) :
              response.queried[k] \in TableNames(collection_weights.table)
        /\ \A k \in 1..Len(response.ranked) :
              LET d == response.ranked[k].doc
              IN  /\ d.source \in TableNames(collection_weights.table)
                  /\ \E i \in 1..Len(response.queried) : response.queried[i] = d.source
                  /\ d.hit \in 1..Len(outcomes[d.source].distances)
                  /\ d.tag = <<"[", d.source, "] ">>
                  /\ response.selected_docs[k] = d

\* The context holds entries of two collections.
C18_Witness ==
    /\ op = "process_query"
    /\ response.kind = "generated"
    /\ \E a, b \in 1..Len(response.selected_docs) :
          /\ response.selected_docs[a].source # response.selected_docs[b].source
          /\ response.selected_docs[a].tag # response.selected_docs[b].tag

\* ------------------------------------------------------------------------
\* C19: ReRanker.rerank returns (document, final_score) pairs with
\* final_score = 0.7 * cross_score + 0.3 * original_score of that document,
\* ordered by non-increasing final_score, of length min(number of
\* documents, top_k), and they are the documents of highest final_score.
\* For [a, b] with original scores [0.9, 0.1] and cross scores [0.2, 0.8],
\* b is ranked above a.
FinalOf(i) == 7 * rerank_call.documents[i].cross + 3 * rerank_call.documents[i].orig

ExampleAB == << [cross |-> 2, orig |-> 9], [cross |-> 8, orig |-> 1] >>

C19_RerankBlendsAndSorts ==
    op = "rerank" =>
        LET documents == rerank_call.documents
            result == rerank_call.result
        IN  /\ Len(result) = min(Len(documents), RERANK_TOP_K)
            /\ \A k \in 1..Len(result) :
                  /\ result[k].doc \in 1..Len(documents)
                  /\ result[k].final = FinalOf(result[k].doc)
            /\ \A k \in 1..(Len(result) - 1) :
                  result[k].final >= result[k + 1].final
            /\ \A j, k \in 1..Len(result) : j # k => result[j].doc # result[k].doc
            /\ \A i \in 1..Len(documents) :
                  (\A k \in 1..Len(result) : result[k].doc # i) =>
                      FinalOf(i) <= result[Len(result)].final
            /\ documents = ExampleAB =>
                  result = << [doc |-> 2, final |-> 59], [doc |-> 1, final |-> 41] >>

\* The example [a, b] followed by further documents, more than top_k in all.
C19_Witness ==
    /\ op = "rerank"
    /\ Len(rerank_call.documents) > RERANK_TOP_K
    /\ SubSeq(rerank_call.documents, 1, 2) = ExampleAB
    /\ Len(rerank_call.result) = RERANK_TOP_K
    /\ \E j, k \in 1..RERANK_TOP_K :
          j < k /\ rerank_call.result[j].doc = 2 /\ rerank_call.result[k].doc = 1

\* ------------------------------------------------------------------------
\* C24: every generate_response call appends exactly two entries to
\* conversation_history, the user query followed by the assistant reply
\* (the generated text, or the apology message on failure); the entries
\* recorded before stay as they are, and the roles of the history
\* alternate user, assistant.
QuerySent == request[Len(request)].content[2]

C24_TwoEntriesPerCall ==
    [][op' = "generate_response" =>
          /\ conversation_history' =
                conversation_history
                   \o << [role |-> "user", content |-> <<QuerySent'>>],
                         [role |-> "assistant", content |-> reply'.text] >>
          /\ Len(conversation_history') % 2 = 0
          /\ \A k \in 1..Len(conversation_history') :
                conversation_history'[k].role
                   = IF k % 2 = 1 THEN "user" ELSE "assistant"]_vars

\* MaxCalls calls were made, a failed one among them.
C24_Witness ==
    /\ op = "generate_response"
    /\ Len(conversation_history) = 2 * MaxCalls
    /\ \E k \in 1..Len(conversation_history) :
          conversation_history[k].content[1] = APOLOGY
    /\ \E k \in 1..Len(conversation_history) :
          /\ conversation_history[k].role = "assistant"
          /\ conversation_history[k].content[1] # APOLOGY

\* ------------------------------------------------------------------------
\* C25: when a retry sub-batch fails too, add_documents re-raises at once:
\* the failing retry is the last collection.add call made, no batch or
\* sub-batch after it is attempted, and the documents of the calls that
\* succeeded before it stay in the collection.
StoredByOkCalls ==
    UNION { Calls[k].lo..(Calls[k].hi - 1) :
                k \in { j \in 1..Len(Calls) : Calls[j].ok } }

C25_FailedRetryStopsIngestion ==
    op = "add_documents" =>
        /\ add_call.raised <=>
              \E k \in 1..Len(Calls) : Calls[k].retry /\ ~Calls[k].ok
        /\ \A k \in 1..Len(Calls) :
              Calls[k].retry /\ ~Calls[k].ok => k = Len(Calls)
        /\ add_call.raised =>
              { d.id : d \in collections[add_call.name].documents } = StoredByOkCalls

\* The first hundred went in, the batch of the second hundred failed, its
\* first retry went in and its second retry failed.
C25_Witness ==
    /\ op = "add_documents"
    /\ add_call.raised
    /\ add_call.n > BATCH_SIZE + RETRY_BATCH_SIZE
    /\ Len(Calls) = 4
    /\ Calls[1].ok /\ ~Calls[2].ok /\ Calls[3].ok /\ ~Calls[4].ok
    /\ { d.id : d \in collections[add_call.name].documents }
          = 0..(BATCH_SIZE + RETRY_BATCH_SIZE - 1)

\* ------------------------------------------------------------------------
\* Properties of cleanup() and save() called on their own (SpecCleanup,
\* SpecPersist)
\* ------------------------------------------------------------------------
CleanupReturned == op = "cleanup" /\ maint = "idle"
SaveReturned == op = "save" /\ maint = "idle"

C23_RetrievalFailureIsReturned ==
    [][op' = "process_query" =>
          /\ ~reply'.raised
          /\ (collection_weights'.raised # "none"
                 \/ \E c \in TableNames(collection_weights'.table) : outcomes'[c].raised)
              => /\ response'.kind = "error"
                 /\ reply'.text[1] = PROCESSING_APOLOGY
                 /\ request' = <<>>
                 /\ conversation_history' = conversation_history]_vars

\* One collection query raised after another had returned documents.
C23_Witness ==
    /\ op = "process_query"
    /\ response.kind = "error"
    /\ reply.text = <<PROCESSING_APOLOGY, "collection query raised">>
    /\ Len(response.all_results) > 0
    /\ request = <<>>
    /\ conversation_history = <<>>

\* ------------------------------------------------------------------------
\* C22: asking each collection for its TOP_K_CHUNKS nearest documents only
\* loses nothing: the effective scores of the truncated merged list are the
\* TOP_K_CHUNKS smallest effective scores over all documents of all the
\* queried collections.
ScoresOf(s) == [i \in 1..Len(s) |-> s[i].score]

AllDocuments ==
    fan_out(collection_weights.table,
            [c \in Collections |-> [raised |-> FALSE, distances |-> stored_distances[c]]],
            1, NoFanOut).all_results

C22_PreTruncationLosesNothing ==
    (op = "process_query" /\ response.kind = "generated")
        => ScoresOf(response.ranked) = ScoresOf(top_k(sort_by_score(AllDocuments)))

\* Both filled collections hold more documents than a query returns, and
\* the merged list takes documents of both.
C22_Witness ==
    /\ op = "process_query"
    /\ response.kind = "generated"
    /\ \A c \in FilledCollections : Len(stored_distances[c]) > TOP_K_CHUNKS
    /\ Len(response.all_results) < Len(AllDocuments)
    /\ Len(response.ranked) = TOP_K_CHUNKS
    /\ \A c \in FilledCollections :
          \E i \in 1..Len(response.ranked) : response.ranked[i].doc.source = c

\* ------------------------------------------------------------------------
\* C21: round trip: after add_documents, query_collection with a query text
\* equal to one of the inserted texts returns that text as the top result.
InsertedTexts == { d.text : d \in collections[embedded_query.name].documents }

TopText ==
    { d.text : d \in { e \in collections[embedded_query.name].documents :
                          e.id = embedded_query.top } }

C21_RoundTrip ==
    (/\ op = "query_collection"
     /\ ~embedded_query.raised
     /\ embedded_query.text \in InsertedTexts)
        => TopText = {embedded_query.text}

\* ------------------------------------------------------------------------
\* C26: in a run of update_vectordb, cleanup() runs before any
\* add_documents; every configured file is counted as processed or failed;
\* save() is called only after all files were handled and only if at least
\* one was processed; a run that processed none exits with status 1 and
\* leaves the persisted store as it was; and the run ends.
RunCounted ==
    /\ update_run.processed + update_run.failed = update_run.i
    /\ update_run.add_calls > 0 => update_run.cleaned
    /\ update_run.saved => (update_run.i = NumFiles /\ update_run.processed > 0)
    /\ (update_run.pc = "exited" /\ update_run.status = 0) =>
           (update_run.i = NumFiles /\ update_run.saved)
    /\ (update_run.pc = "exited" /\ update_run.processed = 0) =>
           update_run.status = 1

RunStep ==
    /\ update_run'.add_calls > update_run.add_calls => update_run.cleaned
    /\ update_run'.processed = 0 => update_run'.persisted = update_run.persisted
    /\ (update_run'.saved /\ ~update_run.saved) =>
           (update_run.i = NumFiles /\ update_run.processed > 0)

C26_UpdateRun ==
    /\ []RunCounted
    /\ [][RunStep]_vars
    /\ <>(update_run.pc = "exited")

\* A run over all the files that processed none of them, next to a store
\* saved earlier.
C26_Witness ==
    /\ update_run.pc = "exited"
    /\ update_run.i = NumFiles
    /\ update_run.failed = NumFiles
    /\ update_run.add_calls > 0
    /\ update_run.status = 1
    /\ update_run.persisted = "previous"

\* ------------------------------------------------------------------------
\* C29: stream_response retrieves exactly as process_query does: for the
\* same query and store state both select the same documents in the same
\* order, by ascending distance times weight and truncated to TOP_K_CHUNKS,
\* and hand the same query type to the generator; only the text of the
\* source tag put before each document differs.
SameDocument(a, b) == a.source = b.source /\ a.hit = b.hit

C29_StreamRetrievesAsProcessQuery ==
    op = "stream_response" =>
        /\ (streamed.kind = "generated") = (response.kind = "generated")
        /\ streamed.query_type = response.query_type
        /\ Len(streamed.selected_docs) = Len(response.selected_docs)
        /\ ScoresOf(streamed.ranked) = ScoresOf(response.ranked)
        /\ \A i \in 1..Len(streamed.selected_docs) :
              /\ SameDocument(streamed.selected_docs[i], response.selected_docs[i])
              /\ streamed.selected_docs[i].tag =
                    <<"[", collection_display_names(streamed.selected_docs[i].source), "] ">>
              /\ response.selected_docs[i].tag =
                    <<"[", response.selected_docs[i].source, "] ">>

\* Both select TOP_K_CHUNKS documents, the lighter collection's first, out
\* of more than that many returned.
C29_Witness ==
    /\ op = "stream_response"
    /\ streamed.kind = "generated"
    /\ Len(streamed.selected_docs) = TOP_K_CHUNKS
    /\ Len(response.all_results) > TOP_K_CHUNKS
    /\ streamed.selected_docs[1].source = "api_docs_modules"
    /\ streamed.ranked[1].score > 0
    /\ \E i \in 1..TOP_K_CHUNKS : streamed.selected_docs[i].source = "api_docs_functions"

\* ------------------------------------------------------------------------
\* C30: prepare_documents_for_db returns texts, metadatas and ids of equal
\* length whose ids are pairwise distinct, each ending with the index its
\* document has in the input; a document that fails preparation is skipped
\* without changing the ids of the others.
ReadableIndices == { i \in 1..Len(prepared.documents) : prepared.documents[i].readable }

\* The input index of the p-th readable document.
NthReadable(p) ==
    CHOOSE i \in ReadableIndices :
        Cardinality({ j \in ReadableIndices : j <= i }) = p

EndsWith(s, suffix) ==
    /\ Len(s) >= Len(suffix)
    /\ SubSeq(s, Len(s) - Len(suffix) + 1, Len(s)) = suffix

PreparedWell ==
    /\ Len(prepared.texts) = Len(prepared.ids)
    /\ Len(prepared.metadatas) = Len(prepared.ids)
    /\ Len(prepared.ids) = Cardinality(ReadableIndices)
    /\ \A p, r \in 1..Len(prepared.ids) : p # r => prepared.ids[p] # prepared.ids[r]
    /\ \A p \in 1..Len(prepared.ids) :
          /\ EndsWith(prepared.ids[p], <<"_">> \o digits(NthReadable(p) - 1))
          /\ prepared.texts[p] = prepared.documents[NthReadable(p)].content

C30_PreparedForAdd ==
    op = "prepare_documents_for_db" =>
        /\ ~prepared.raised => PreparedWell
        /\ ReadableIndices # {} => ~prepared.raised

\* C30 as amended: what the call returns is as claimed; the function of
\* embedding_utils skips a document that fails preparation and raises only
\* when no document is left, the one of doc_utils raises as soon as a
\* document fails preparation.
C30_PreparedForAddPerModule ==
    op = "prepare_documents_for_db" =>
        /\ ~prepared.raised => PreparedWell
        /\ prepared.module = "embedding_utils" =>
              (prepared.raised <=> ReadableIndices = {})
        /\ prepared.module = "doc_utils" =>
              (prepared.raised <=> ReadableIndices # 1..Len(prepared.documents))

\* embedding_utils skipped the first document and kept two behind it.
C30_Witness ==
    /\ op = "prepare_documents_for_db"
    /\ prepared.module = "embedding_utils"
    /\ ~prepared.raised
    /\ 1 \notin ReadableIndices
    /\ Len(prepared.ids) = 2
    /\ prepared.metadatas[1].type = <<>>
====
